---- MODULE Spec2Model ----
(***************************************************************************)
(* hamshark: the Session of src/session.rs (tracked clips, the audio       *)
(* configuration, the capture stream), the session directory it scans and  *)
(* writes, and the local clock its file names are formatted from; the      *)
(* WavClip of src/data/audio.rs; the CpalSource of src/pipeline; and the    *)
(* Timeline viewport of src/gui/timeline.rs. Each component has its own    *)
(* specification, in which the other components are not constructed.       *)
(***************************************************************************)
EXTENDS Integers, Sequences, FiniteSets, TLC

\* The clock runs in sub-second ticks, 0..MaxClock.
MaxClock == 3
\* Ticks in one second of the clock.
TicksPerSecond == 2

\* Option<T>: None is the empty set, Some(x) the set holding x.
None == {}
Some(x) == {x}
unwrap(o) == CHOOSE x \in o : TRUE

\* Session.path: <session_base>/<timestamp>, never empty.
SessionPath == "session"

------------------------------------------------------------------------------
(* Inputs *)

\* AudioInputDevice values the caller can hand to configure. Devices 1 and 2
\* are two devices of one host that report the same name and the same
\* stream configuration.
AudioInputDevices ==
    { [host |-> "alsa", device |-> 1, name |-> "mic",
       config |-> [channels |-> 1, sample_rate |-> 44100]],
      [host |-> "alsa", device |-> 2, name |-> "mic",
       config |-> [channels |-> 1, sample_rate |-> 44100]],
      [host |-> "alsa", device |-> 3, name |-> "usb",
       config |-> [channels |-> 2, sample_rate |-> 48000]] }

\* Entries the session directory may hold when the session is constructed:
\* create_dir_all succeeds on a directory that already exists.
InitialEntries ==
    { [stem |-> 0, ext |-> "wav",  is_file |-> TRUE],
      [stem |-> 1, ext |-> "wav",  is_file |-> TRUE],
      [stem |-> 0, ext |-> "toml", is_file |-> TRUE],
      [stem |-> 2, ext |-> "wav",  is_file |-> FALSE] }

------------------------------------------------------------------------------
(* State *)

VARIABLES
    clips,        \* Session.clips: Vec of Clip
    audioconfig,  \* Session.audioconfig: None or an AudioInputDevice
    stream,       \* Session.stream: None or the capture stream
    dir,          \* the entries of the session directory on disk
    now,          \* Local::now(), in ticks
    op,           \* the last call made on the session
    arg,          \* its argument (configure), else None
    result,       \* what it returned
    rescans,      \* successful rescan_clips calls since any other call, up to 2
    wavclip,      \* a WavClip, its file and the last call made on it
    source,       \* a CpalSource and the last call made on it
    timeline,     \* a Timeline, its clip's sample count and pointer input
    shared,       \* a clip shared by the capture thread and the presentation thread
    pipeline,     \* a chain of pipeline elements and the last call made on it
    hamshark      \* a HamShark, its worker threads and their command channels

vars == <<clips, audioconfig, stream, dir, now, op, arg, result, rescans,
          wavclip, source, timeline, shared, pipeline, hamshark>>

\* The Session, its directory and its clock.
sessionVars == <<clips, audioconfig, stream, dir, now, op, arg, result, rescans>>

\* The components other than the Session.
others == <<wavclip, source, timeline, shared, pipeline, hamshark>>

\* A component that has not been constructed.
NotConstructed == {}

\* No Session has been constructed.
NoSession ==
    /\ clips = <<>>
    /\ audioconfig = {}
    /\ stream = {}
    /\ dir = {}
    /\ now = 0
    /\ op = "none"
    /\ arg = {}
    /\ result = "Ok"
    /\ rescans = 0

------------------------------------------------------------------------------
(* Paths, names and clips *)

\* Local::now().format("%Y-%m-%d_%H-%M-%S"): the sub-second part is dropped.
create_filename_from_now(t) == t \div TicksPerSecond

\* clipname = self.path.clone(); push(name); set_extension("wav")
ClipPath(name) == [dir |-> SessionPath, stem |-> name, ext |-> "wav"]

\* PathBuf::from(entry.file_name()): the bare file name, no directory.
EntryPath(e) == [dir |-> "", stem |-> e.stem, ext |-> e.ext]

\* ClipId::from_path_ref: the file stem of the path.
from_path_ref(path) == path.stem

WavSpecOf(cfg) ==
    [channels |-> 1, sample_rate |-> cfg.config.sample_rate,
     bits_per_sample |-> 16, sample_format |-> "Int"]

\* An entry of directory d is at path p.
PathExists(d, p) ==
    /\ p.dir = SessionPath
    /\ \E e \in d : e.stem = p.stem /\ e.ext = p.ext

\* Clip::new(path, spec): opens the encoder at path and returns a Writable
\* clip; fails when the file cannot be created (io = FALSE: permission, disk
\* full) or the path is already taken.
Clip_new(path, spec, d, io) ==
    IF ~io \/ PathExists(d, path)
    THEN [ok |-> FALSE, clip |-> None, dir |-> d]
    ELSE [ok |-> TRUE,
          clip |-> [path |-> path, writable |-> TRUE,
                    sample_rate |-> spec.sample_rate],
          dir |-> d \cup {[stem |-> path.stem, ext |-> path.ext,
                           is_file |-> TRUE]}]

\* Clip::from(path): a ReadOnly clip for a file found on disk.
Clip_from(path) == [path |-> path, writable |-> FALSE, sample_rate |-> 0]

is_writable(clip) == clip.writable

------------------------------------------------------------------------------
(* Session *)

Self == [clips |-> clips, audioconfig |-> audioconfig, stream |-> stream]

Ret(self, d, res) == [self |-> self, dir |-> d, res |-> res]

\* impl PartialEq for AudioInputDevice
AudioInputDevice_eq(a, b) ==
    /\ a.host = b.host
    /\ a.name = b.name
    /\ a.config = b.config

is_configured(self) == self.audioconfig # None

is_started(self) == self.stream # None

\* The index of the first Writable clip, 0 for None.
get_recording_clip(self) ==
    LET W == {i \in 1..Len(self.clips) : is_writable(self.clips[i])}
    IN  IF W = {} THEN 0 ELSE CHOOSE i \in W : \A j \in W : i <= j

\* record_new_clip taking "already recording" from the stream, not the clips.
record_new_clip_checks_stream(self, d, t, io) ==
    IF is_started(self) THEN Ret(self, d, "AlreadyRecording")
    ELSE IF ~is_configured(self) THEN Ret(self, d, "NoAudioConfiguration")
    ELSE LET cfg      == unwrap(self.audioconfig)
             clipname == ClipPath(create_filename_from_now(t))
             r        == Clip_new(clipname, WavSpecOf(cfg), d, io)
         IN  IF ~r.ok THEN Ret(self, d, "CreateClip")
             ELSE Ret([self EXCEPT !.clips = Append(@, r.clip)], r.dir, "Ok")

\* record_new_clip without the AlreadyRecording check.
record_new_clip_unguarded(self, d, t, io) ==
    IF ~is_configured(self) THEN Ret(self, d, "NoAudioConfiguration")
    ELSE LET cfg      == unwrap(self.audioconfig)
             clipname == ClipPath(create_filename_from_now(t))
             r        == Clip_new(clipname, WavSpecOf(cfg), d, io)
         IN  IF ~r.ok THEN Ret(self, d, "CreateClip")
             ELSE Ret([self EXCEPT !.clips = Append(@, r.clip)], r.dir, "Ok")

\* record_new_clip falling back to a default device when none is configured.
record_new_clip_default_config(self, d, t, io) ==
    IF get_recording_clip(self) # 0 THEN Ret(self, d, "AlreadyRecording")
    ELSE LET cfg      == IF is_configured(self) THEN unwrap(self.audioconfig)
                         ELSE CHOOSE a \in AudioInputDevices : a.device = 1
             clipname == ClipPath(create_filename_from_now(t))
             r        == Clip_new(clipname, WavSpecOf(cfg), d, io)
         IN  IF ~r.ok THEN Ret(self, d, "CreateClip")
             ELSE Ret([self EXCEPT !.clips = Append(@, r.clip)], r.dir, "Ok")

record_new_clip(self, d, t, io) ==
    IF get_recording_clip(self) # 0 THEN Ret(self, d, "AlreadyRecording")
    ELSE IF ~is_configured(self) THEN Ret(self, d, "NoAudioConfiguration")
    ELSE LET cfg      == unwrap(self.audioconfig)
             clipname == ClipPath(create_filename_from_now(t))
             r        == Clip_new(clipname, WavSpecOf(cfg), d, io)
         IN  IF ~r.ok THEN Ret(self, d, "CreateClip")
             ELSE Ret([self EXCEPT !.clips = Append(@, r.clip)], r.dir, "Ok")

\* The stream construction of start is commented out in the source: start
\* records the clip and returns, and self.stream stays as it was.
start(self, d, t, io) ==
    IF is_started(self) THEN Ret(self, d, "AlreadyRecording")
    ELSE LET r == record_new_clip(self, d, t, io)
         IN  IF r.res # "Ok" THEN r
             ELSE IF ~is_configured(r.self)
                  THEN Ret(r.self, r.dir, "NoAudioConfiguration")
                  ELSE r

\* stop reporting success when nothing is started.
stop_reports_ok(self, d) ==
    IF ~is_started(self) THEN Ret(self, d, "Ok")
    ELSE Ret([self EXCEPT !.stream = None], d, "Ok")

stop(self, d) ==
    IF ~is_started(self) THEN Ret(self, d, "NotRunning")
    ELSE Ret([self EXCEPT !.stream = None], d, "Ok")

\* configure without the early return for an equal configuration.
configure_always_swaps(self, d, t, io, newconfig) ==
    LET was_started == is_started(self)
        s1 == IF was_started THEN stop(self, d) ELSE Ret(self, d, "Ok")
    IN  IF s1.res # "Ok" THEN s1
        ELSE LET s2 == [s1.self EXCEPT !.audioconfig = Some(newconfig)]
             IN  IF was_started THEN start(s2, d, t, io)
                 ELSE Ret(s2, d, "Ok")

configure(self, d, t, io, newconfig) ==
    IF self.audioconfig # None /\ AudioInputDevice_eq(unwrap(self.audioconfig), newconfig)
    THEN Ret(self, d, "Ok")
    ELSE LET was_started == is_started(self)
             s1 == IF was_started THEN stop(self, d) ELSE Ret(self, d, "Ok")
         IN  IF s1.res # "Ok" THEN s1
             ELSE LET s2 == [s1.self EXCEPT !.audioconfig = Some(newconfig)]
                  IN  IF was_started THEN start(s2, d, t, io)
                      ELSE Ret(s2, d, "Ok")

\* update_clip pushing a clip whether or not the path is tracked.
update_clip_always_pushes(self, path) ==
    [self EXCEPT !.clips = Append(@, Clip_from(path))]

update_clip(self, path) ==
    IF \E i \in 1..Len(self.clips) : self.clips[i].path = path
    THEN self
    ELSE [self EXCEPT !.clips = Append(@, Clip_from(path))]

\* The loop body of rescan_clips for one directory entry.
RescanEntry(self, e) ==
    IF e.is_file /\ e.ext = "wav" THEN update_clip(self, EntryPath(e))
    ELSE self

RECURSIVE RescanLoop(_, _)
RescanLoop(self, entries) ==
    IF entries = <<>> THEN self
    ELSE RescanLoop(RescanEntry(self, Head(entries)), Tail(entries))

\* rescan_clips over the entries in the order read_dir yields them. With
\* fail = TRUE an I/O error (read_dir, an entry, its file type) returns early
\* through `?` after the first upto entries were handled.
rescan_clips(self, d, order, upto, fail) ==
    IF fail THEN Ret(RescanLoop(self, SubSeq(order, 1, upto)), d, "IoError")
    ELSE Ret(RescanLoop(self, order), d, "Ok")

\* The orders in which read_dir may yield the entries of a directory.
RECURSIVE Orders(_)
Orders(S) ==
    IF S = {} THEN {<<>>}
    ELSE UNION {{<<x>> \o o : o \in Orders(S \ {x})} : x \in S}

------------------------------------------------------------------------------
(* Specification *)

\* Session::from_settings: an empty session over the directory, rescanned.
Init ==
    /\ dir \in SUBSET InitialEntries
    /\ now = 0
    /\ \E order \in Orders(dir) :
         clips = rescan_clips([clips |-> <<>>, audioconfig |-> None,
                               stream |-> None], dir, order, 0, FALSE).self.clips
    /\ audioconfig = None
    /\ stream = None
    /\ op = "from_settings"
    /\ arg = None
    /\ result = "Ok"
    /\ rescans = 0
    /\ wavclip = NotConstructed
    /\ source = NotConstructed
    /\ timeline = NotConstructed
    /\ shared = NotConstructed
    /\ pipeline = NotConstructed
    /\ hamshark = NotConstructed

Apply(r, name, a) ==
    /\ clips' = r.self.clips
    /\ audioconfig' = r.self.audioconfig
    /\ stream' = r.self.stream
    /\ dir' = r.dir
    /\ op' = name
    /\ arg' = a
    /\ result' = r.res
    /\ rescans' = IF name = "rescan_clips" /\ r.res = "Ok"
                  THEN (IF rescans < 2 THEN rescans + 1 ELSE 2)
                  ELSE 0
    /\ UNCHANGED <<now, others>>

CallRecordNewClip ==
    \E io \in BOOLEAN : Apply(record_new_clip(Self, dir, now, io), "record_new_clip", None)

CallStart ==
    \E io \in BOOLEAN : Apply(start(Self, dir, now, io), "start", None)

CallStop == Apply(stop(Self, dir), "stop", None)

CallConfigure ==
    \E io \in BOOLEAN, newconfig \in AudioInputDevices :
        Apply(configure(Self, dir, now, io, newconfig), "configure", Some(newconfig))

CallRescanClips ==
    \E order \in Orders(dir) : \E upto \in 0..Len(order), fail \in BOOLEAN :
        /\ ~fail => upto = Len(order)
        /\ Apply(rescan_clips(Self, dir, order, upto, fail), "rescan_clips", None)

\* Time passes between calls.
Tick ==
    /\ now < MaxClock
    /\ now' = now + 1
    /\ op' = "tick"
    /\ arg' = None
    /\ result' = "Ok"
    /\ UNCHANGED <<clips, audioconfig, stream, dir, rescans, others>>

Next ==
    \/ CallRecordNewClip
    \/ CallStart
    \/ CallStop
    \/ CallConfigure
    \/ CallRescanClips
    \/ Tick

Spec == Init /\ [][Next]_vars

------------------------------------------------------------------------------
(* Properties of the Session *)

\* The indices of the Writable clips of a clip list.
WritableClips(cs) == {i \in 1..Len(cs) : is_writable(cs[i])}

\* A clip is being recorded, or the stream is started.
Recording == get_recording_clip(Self) # 0 \/ is_started(Self)

\* The configure call of this step was given a configuration that is not
\* equal (PartialEq) to the current one.
ConfigureDifferent ==
    /\ op' = "configure"
    /\ audioconfig = None \/ ~AudioInputDevice_eq(unwrap(audioconfig), unwrap(arg'))

\* The clip that was Writable before the step is ReadOnly after it.
OldClipStopped ==
    get_recording_clip(Self) # 0 => ~is_writable(clips'[get_recording_clip(Self)])

\* After the step a clip added by it is Writable, at the sample rate of the
\* configuration handed to configure.
NewClipRecording ==
    \E i \in WritableClips(clips') :
        /\ i > Len(clips)
        /\ clips'[i].sample_rate = unwrap(arg').config.sample_rate

\* C1: in every reachable state of a Session at most one tracked Clip is
\* Writable.
C1_AtMostOneWritable == Cardinality(WritableClips(clips)) <= 1

\* A second recording was refused while one clip is Writable among several
\* tracked clips.
C1_Witness ==
    /\ Cardinality(WritableClips(clips)) = 1
    /\ Len(clips) >= 2
    /\ op = "start"
    /\ result = "AlreadyRecording"

\* C2: record_new_clip called while a clip is still being recorded fails with
\* AlreadyRecording, tracks no further clip and creates no further file.
C2_SecondRecordFails ==
    [][(op' = "record_new_clip" /\ get_recording_clip(Self) # 0)
         => (result' = "AlreadyRecording" /\ clips' = clips /\ dir' = dir)]_vars

\* record_new_clip has just been refused with AlreadyRecording.
C2_Witness ==
    /\ op = "record_new_clip"
    /\ result = "AlreadyRecording"
    /\ get_recording_clip(Self) # 0

\* C3: whenever record_new_clip returns success the session reports recording
\* in progress (is_started) and exactly one tracked Clip is Writable.
C3_RecordStartsPipeline ==
    (op = "record_new_clip" /\ result = "Ok")
        => (is_started(Self) /\ Cardinality(WritableClips(clips)) = 1)

\* C4: after stop on a session that is recording no tracked Clip is Writable
\* and the session no longer reports recording in progress.
C4_StopFinalizesClip ==
    [][(op' = "stop" /\ Recording)
         => (WritableClips(clips') = {} /\ stream' = None)]_vars

\* C5 as claimed: stop on a session in which nothing is recording reports no
\* error and leaves clips, configuration and recording flag unchanged.
C5_StopIdleSucceeds ==
    [][(op' = "stop" /\ ~Recording)
         => (result' = "Ok" /\ UNCHANGED <<clips, audioconfig, stream>>)]_vars

\* C5 as amended: stop on a session that is not started returns NotRunning
\* and leaves clips, configuration, recording flag and directory unchanged.
C5_StopIdleNotRunning ==
    [][(op' = "stop" /\ ~is_started(Self))
         => (result' = "NotRunning"
             /\ UNCHANGED <<clips, audioconfig, stream, dir>>)]_vars

\* stop has just been called on a configured session that is not started.
C5_Witness ==
    /\ op = "stop"
    /\ result = "NotRunning"
    /\ ~is_started(Self)
    /\ is_configured(Self)

\* C6: configure with a different configuration keeps the session recording
\* iff it was recording; if it was, the old clip is stopped and a new clip is
\* recorded under the new configuration.
C6_ConfigureKeepsRecording ==
    [][ConfigureDifferent
         => /\ (WritableClips(clips') # {} \/ stream' # None)
                <=> Recording
            /\ Recording => (OldClipStopped /\ NewClipRecording)]_vars

\* C7: configure while recording either stops, swaps and restarts, or returns
\* an error with configuration, clips and recording flag as before the call.
C7_ConfigureAllOrNothing ==
    [][(ConfigureDifferent /\ Recording)
         => \/ /\ result' = "Ok"
               /\ audioconfig' = arg'
               /\ OldClipStopped
               /\ NewClipRecording
            \/ /\ result' # "Ok"
               /\ UNCHANGED <<clips, audioconfig, stream>>]_vars

\* C8: configure with a configuration equal to the current one returns
\* success and changes nothing, recording or not.
C8_ConfigureSameIsNoop ==
    [][(/\ op' = "configure"
        /\ audioconfig # None
        /\ AudioInputDevice_eq(unwrap(audioconfig), unwrap(arg')))
         => (result' = "Ok" /\ UNCHANGED <<clips, audioconfig, stream, dir>>)]_vars

\* configure was just given an equal configuration built on another device
\* value, while a clip is being recorded.
C8_Witness ==
    /\ op = "configure"
    /\ result = "Ok"
    /\ audioconfig # None
    /\ arg # audioconfig
    /\ AudioInputDevice_eq(unwrap(audioconfig), unwrap(arg))
    /\ get_recording_clip(Self) # 0

\* C9: record_new_clip with no configuration and no Writable clip fails with
\* NoAudioConfiguration, tracks no clip and creates no file.
C9_RecordUnconfiguredFails ==
    [][(op' = "record_new_clip" /\ ~is_configured(Self)
        /\ get_recording_clip(Self) = 0)
         => (result' = "NoAudioConfiguration" /\ clips' = clips /\ dir' = dir)]_vars

\* record_new_clip has just been refused on an unconfigured session that
\* tracks clips found on disk.
C9_Witness ==
    /\ op = "record_new_clip"
    /\ result = "NoAudioConfiguration"
    /\ Len(clips) >= 1
    /\ dir # {}

\* No two tracked clips share an id or a path.
UniqueClips(cs) ==
    \A i, j \in 1..Len(cs) :
        i # j => /\ from_path_ref(cs[i].path) # from_path_ref(cs[j].path)
                 /\ cs[i].path # cs[j].path

\* C10: when the id record_new_clip allocates from the clock is the id of a
\* tracked clip, it fails with ClipAlreadyExists and leaves clips and files
\* untouched; and no two tracked clips ever share an id or a path.
C10_CollisionRejected ==
    [][/\ (/\ op' = "record_new_clip"
           /\ get_recording_clip(Self) = 0
           /\ is_configured(Self)
           /\ \E i \in 1..Len(clips) :
                from_path_ref(clips[i].path) = create_filename_from_now(now))
          => (result' = "ClipAlreadyExists" /\ clips' = clips /\ dir' = dir)
       /\ UniqueClips(clips')]_vars

C29_StopLeavesNoEncoder ==
    op = "stop" => \A i \in 1 .. Len(clips) : ~is_writable(clips[i])

------------------------------------------------------------------------------
(* WavClip (src/data/audio.rs) *)

\* The most samples a clip holds in memory.
MaxSamples == 4
\* The most samples handed to one write_samples call.
MaxBatch == 4
\* The most samples stored in a file that from_file loads.
MaxFileLen == 2

Max(a, b) == IF a > b THEN a ELSE b
Min(a, b) == IF a < b THEN a ELSE b

\* i16::MAX
I16_MAX == 32767
\* i16::MIN
I16_MIN == -32768

\* An f32 sample s is held as the integer s * 2 * I16_MAX (half quantization
\* steps), so that s * i16::MAX is a whole number of halves. The samples a
\* capture callback may deliver: -1.0, -0.5, 0.5 and 1.0.
SampleValues == {-2 * I16_MAX, -I16_MAX, I16_MAX, 2 * I16_MAX}

\* The 16-bit values a file on disk may hold.
FileValues == {I16_MIN, -1, 0, I16_MAX}

\* The sequences over S of length at most n.
SeqsUpTo(S, n) == UNION {[1..k -> S] : k \in 0..n}

\* Encoding that rounds the product to the nearest integer, halves away
\* from zero.
f32_to_i16_rounds(sample) ==
    LET t == IF sample >= 0 THEN (sample + 1) \div 2 ELSE -((1 - sample) \div 2)
    IN  IF t > I16_MAX THEN I16_MAX ELSE IF t < I16_MIN THEN I16_MIN ELSE t

\* (sample * i16::MAX as f32) as i16: the product is truncated toward zero
\* and saturates at the bounds of i16.
f32_to_i16(sample) ==
    LET t == IF sample >= 0 THEN sample \div 2 ELSE -((-sample) \div 2)
    IN  IF t > I16_MAX THEN I16_MAX ELSE IF t < I16_MIN THEN I16_MIN ELSE t

\* Decoding that leaves out the division by i16::MAX.
i16_to_f32_unscaled(sample) == 2 * I16_MAX * sample

\* sample as f32 / i16::MAX as f32
i16_to_f32(sample) == 2 * sample

\* WavSink::process: each sample is written as (sample * i16::MAX as f32) as
\* i16, the cast dropping the fraction and saturating.
WavSink_encode(sample) ==
    LET whole == IF sample < 0 THEN -((-sample) \div 2) ELSE sample \div 2
    IN  Max(I16_MIN, Min(I16_MAX, whole))

\* The samples written to the file, one i16 per sample.
encode_samples(q) == [i \in 1..Len(q) |-> f32_to_i16(q[i])]

\* The samples decoded from the file, one f32 per i16.
decode_samples(q) == [i \in 1..Len(q) |-> i16_to_f32(q[i])]

\* WavClip::record_new, when WavWriter::create succeeds: a Writable clip with
\* no samples over an empty file.
record_new(id) ==
    [id |-> id, samples |-> <<>>, writer |-> Some("writer"), file |-> <<>>]

\* WavClip::from_file, when the file opens and every sample decodes: a
\* ReadOnly clip holding the decoded samples of the file.
from_file(id, file) ==
    [id |-> id, samples |-> decode_samples(file), writer |-> None,
     file |-> file]

\* write_samples storing the batch in memory before it looks at the writer.
write_samples_extends_first(self, batch, wrote, fail) ==
    LET mem == [self EXCEPT !.samples = @ \o batch]
    IN  IF self.writer = None THEN [self |-> mem, res |-> "ReadOnly"]
        ELSE [self |-> [mem EXCEPT !.file = @ \o encode_samples(SubSeq(batch, 1, wrote))],
              res |-> IF fail THEN "HoundError" ELSE "Ok"]

\* write_samples doing nothing, and saying so, on a clip without a writer.
write_samples_ignores_readonly(self, batch, wrote, fail) ==
    IF self.writer = None THEN [self |-> self, res |-> "Ok"]
    ELSE [self |-> [self EXCEPT !.samples = @ \o batch,
                                !.file = @ \o encode_samples(SubSeq(batch, 1, wrote))],
          res |-> IF fail THEN "HoundError" ELSE "Ok"]

\* write_samples keeping only the newest batch in memory.
write_samples_keeps_newest(self, batch, wrote, fail) ==
    IF self.writer = None THEN [self |-> self, res |-> "ReadOnly"]
    ELSE [self |-> [self EXCEPT !.samples = batch,
                                !.file = @ \o encode_samples(SubSeq(batch, 1, wrote))],
          res |-> IF fail THEN "HoundError" ELSE "Ok"]

\* WavClip::write_samples. With a writer the batch is stored in memory, then
\* written sample by sample and flushed; with fail = TRUE a write or the
\* flush returns an error after the first `wrote` samples reached the file.
write_samples(self, batch, wrote, fail) ==
    IF self.writer = None THEN [self |-> self, res |-> "ReadOnly"]
    ELSE [self |-> [self EXCEPT !.samples = @ \o batch,
                                !.file = @ \o encode_samples(SubSeq(batch, 1, wrote))],
          res |-> IF fail THEN "HoundError" ELSE "Ok"]

\* The WavClip of the state.
ClipSelf == [id |-> wavclip.id, samples |-> wavclip.samples,
             writer |-> wavclip.writer, file |-> wavclip.file]

\* The clip after a call, with the call, its batch and result, and whether
\* some write_samples on the clip has returned an error.
ClipState(self, name, batch, res, failed) ==
    [id |-> self.id, samples |-> self.samples, writer |-> self.writer,
     file |-> self.file, op |-> name, batch |-> batch, res |-> res,
     failed |-> failed]

\* A clip just constructed, by record_new or by from_file over a file.
ClipInit ==
    /\ NoSession
    /\ source = NotConstructed
    /\ timeline = NotConstructed
    /\ shared = NotConstructed
    /\ pipeline = NotConstructed
    /\ hamshark = NotConstructed
    /\ \/ wavclip = ClipState(record_new(0), "record_new", <<>>, "Ok", FALSE)
       \/ \E file \in SeqsUpTo(FileValues, MaxFileLen) :
            wavclip = ClipState(from_file(0, file), "from_file", <<>>, "Ok", FALSE)

\* The capture callback hands a batch to write_samples; once a call has
\* returned an error the callback hands over nothing more.
CallWriteSamples ==
    \E batch \in SeqsUpTo(SampleValues, Min(MaxBatch, MaxSamples - Len(wavclip.samples))) :
      \E wrote \in 0..Len(batch), fail \in BOOLEAN :
        /\ ~wavclip.failed
        /\ ~fail => wrote = Len(batch)
        /\ wavclip.writer = None => ~fail
        /\ LET r == write_samples(ClipSelf, batch, wrote, fail)
           IN  wavclip' = ClipState(r.self, "write_samples", batch, r.res,
                                    wavclip.failed \/ r.res # "Ok")
        /\ UNCHANGED <<sessionVars, source, timeline, shared, pipeline, hamshark>>

ClipNext == CallWriteSamples

ClipSpec == ClipInit /\ [][ClipNext]_vars

\* C12: write_samples on a ReadOnly clip (no writer) returns the ReadOnly
\* error and leaves the samples in memory, and the file, unchanged.
C12_WriteReadOnlyFails ==
    [][(wavclip'.op = "write_samples" /\ wavclip.writer = None)
         => /\ wavclip'.res = "ReadOnly"
            /\ wavclip'.samples = wavclip.samples
            /\ wavclip'.file = wavclip.file]_vars

\* A non-empty batch has just been refused by a clip loaded from a file that
\* holds samples.
C12_Witness ==
    /\ wavclip.op = "write_samples"
    /\ wavclip.res = "ReadOnly"
    /\ wavclip.batch # <<>>
    /\ wavclip.samples # <<>>

\* C13: once a clip is ReadOnly it stays ReadOnly and its samples never
\* change, whatever is called on it.
C13_ReadOnlyAbsorbing ==
    [][wavclip.writer = None
         => (wavclip'.writer = None /\ wavclip'.samples = wavclip.samples)]_vars

\* Two samples were handed to a ReadOnly clip that still holds exactly the
\* two samples decoded from its file.
C13_Witness ==
    /\ wavclip.writer = None
    /\ wavclip.op = "write_samples"
    /\ Len(wavclip.batch) = 2
    /\ wavclip.samples = decode_samples(wavclip.file)
    /\ Len(wavclip.file) = 2

\* The clip the file of the state decodes to.
Decoded == from_file(wavclip.id, wavclip.file)

\* One quantization step, 1/32767, in the unit of the samples.
QuantizationStep == i16_to_f32(1)

Abs(x) == IF x < 0 THEN -x ELSE x

\* C24 as stated: the batch [0.5, -0.5, 1.0, -1.0] is stored as
\* [16383 or 16384, -16384, 32767, -32768], and WavSink::process and
\* WavClip::write_samples encode every sample alike.
C24_EncodesToFullRange ==
    /\ \A sample \in SampleValues : f32_to_i16(sample) = WavSink_encode(sample)
    /\ (wavclip.op = "write_samples" /\ wavclip.res = "Ok"
          /\ wavclip.batch = <<I16_MAX, -I16_MAX, 2 * I16_MAX, -2 * I16_MAX>>)
          => \/ SubSeq(wavclip.file, Len(wavclip.file) - 3, Len(wavclip.file))
                   = <<16383, -16384, 32767, -32768>>
             \/ SubSeq(wavclip.file, Len(wavclip.file) - 3, Len(wavclip.file))
                   = <<16384, -16384, 32767, -32768>>

\* C24, amended: each sample is multiplied by i16::MAX and truncated toward
\* zero, so the batch [0.5, -0.5, 1.0, -1.0] is stored as
\* [16383, -16383, 32767, -32767], and WavSink::process and
\* WavClip::write_samples encode every sample alike.
C24_EncodesTruncated ==
    /\ \A sample \in SampleValues : f32_to_i16(sample) = WavSink_encode(sample)
    /\ (wavclip.op = "write_samples" /\ wavclip.res = "Ok"
          /\ wavclip.batch = <<I16_MAX, -I16_MAX, 2 * I16_MAX, -2 * I16_MAX>>)
          => SubSeq(wavclip.file, Len(wavclip.file) - 3, Len(wavclip.file))
                = <<16383, -16383, 32767, -32767>>

\* The batch [0.5, -0.5, 1.0, -1.0] has just been written to a new clip.
C24_Witness ==
    /\ wavclip.op = "write_samples"
    /\ wavclip.res = "Ok"
    /\ wavclip.batch = <<I16_MAX, -I16_MAX, 2 * I16_MAX, -2 * I16_MAX>>
    /\ Len(wavclip.file) = 4

IsPrefix(p, q) == Len(p) <= Len(q) /\ SubSeq(q, 1, Len(p)) = p

\* C30: while the clip is Writable every step leaves the samples it held in
\* place, index by index, and only adds after them.
C30_SamplesAppendOnly ==
    [][wavclip.writer # None => IsPrefix(wavclip.samples, wavclip'.samples)]_vars

\* A second batch, of two samples, has been appended to a Writable clip that
\* held two.
C30_Witness ==
    /\ wavclip.writer # None
    /\ wavclip.op = "write_samples"
    /\ wavclip.res = "Ok"
    /\ Len(wavclip.batch) = 2
    /\ Len(wavclip.samples) = 4
    /\ SubSeq(wavclip.samples, 3, 4) = wavclip.batch

\* C37: a write_samples call on a Writable clip adds as many samples to
\* the memory of the clip as it handed to the encoder: those that reached
\* the file and, when the call returns an error, at most the one whose write
\* failed.
C37_MemoryMatchesEncoder ==
    [][(wavclip'.op = "write_samples" /\ wavclip.writer # None)
         => LET stored == Len(wavclip'.samples) - Len(wavclip.samples)
                written == Len(wavclip'.file) - Len(wavclip.file)
            IN  \/ stored = written
                \/ wavclip'.res # "Ok" /\ stored = written + 1]_vars

------------------------------------------------------------------------------
(* CpalSource (src/pipeline/cpalsource.rs) *)

\* impl From<AudioInputDevice> for CpalSource: no stream, no samples, nobody
\* to notify.
CpalSource_from(value) ==
    [audioinputdevice |-> value, stream |-> None, samples |-> <<>>,
     on_data |-> None]

\* CpalSource has no field for a next element and no set_next_element: no
\* Sink is ever attached to it.
CpalSource_next_element(self) == None

\* play keeping the stream handle before the stream is started.
CpalSource_play_keeps_unstarted(self, outcome) ==
    IF self.stream # None THEN [self |-> self, res |-> "Ok"]
    ELSE IF outcome = "build_fails" THEN [self |-> self, res |-> "BuildStream"]
    ELSE [self |-> [self EXCEPT !.stream = Some([captured |-> self.samples])],
          res |-> IF outcome = "play_fails" THEN "PlayStream" ELSE "Ok"]

\* CpalSource::play. outcome is what the device does: build_input_stream
\* fails, stream.play() fails, or both succeed. The data callback of the
\* stream owns a clone of self.samples.
CpalSource_play(self, outcome) ==
    IF self.stream # None THEN [self |-> self, res |-> "Ok"]
    ELSE IF outcome = "build_fails" THEN [self |-> self, res |-> "BuildStream"]
    ELSE IF outcome = "play_fails" THEN [self |-> self, res |-> "PlayStream"]
    ELSE [self |-> [self EXCEPT !.stream = Some([captured |-> self.samples])],
          res |-> "Ok"]

\* pause stopping the stream of a source that is playing.
CpalSource_pause_drops_stream(self) ==
    IF self.stream # None THEN [self |-> [self EXCEPT !.stream = None], res |-> "Ok"]
    ELSE [self |-> self, res |-> "CannotPause"]

\* CpalSource::pause
CpalSource_pause(self) == [self |-> self, res |-> "CannotPause"]

\* stop refusing a source that is not playing.
CpalSource_stop_refuses_stopped(self) ==
    IF self.stream # None THEN [self |-> [self EXCEPT !.stream = None], res |-> "Ok"]
    ELSE [self |-> self, res |-> "NotRunning"]

\* CpalSource::stop: the stream, if any, is taken, paused and dropped.
CpalSource_stop(self) ==
    IF self.stream # None THEN [self |-> [self EXCEPT !.stream = None], res |-> "Ok"]
    ELSE [self |-> self, res |-> "Ok"]

\* CpalSource::can_pause
CpalSource_can_pause(self) == FALSE

\* CpalSource::state
CpalSource_state(self) ==
    IF self.stream # None THEN "Playing" ELSE "Paused"

\* The data callback of the stream: each sample is pushed onto the samples
\* the closure owns; on_data, when set, is notified.
CpalSource_data_callback(self, data) ==
    [self EXCEPT !.stream = Some([captured |-> unwrap(@).captured \o data])]

\* The error callback of the stream: the error is logged.
CpalSource_error_callback(self) == self

\* The CpalSource of the state.
SourceSelf ==
    [audioinputdevice |-> source.audioinputdevice, stream |-> source.stream,
     samples |-> source.samples, on_data |-> source.on_data]

\* The source after a call, with the call, its result and the stream handle
\* the source held before the call.
SourceState(self, name, res, before) ==
    [audioinputdevice |-> self.audioinputdevice, stream |-> self.stream,
     samples |-> self.samples, on_data |-> self.on_data,
     op |-> name, res |-> res, before |-> before]

SourceInit ==
    /\ NoSession
    /\ wavclip = NotConstructed
    /\ timeline = NotConstructed
    /\ shared = NotConstructed
    /\ pipeline = NotConstructed
    /\ hamshark = NotConstructed
    /\ \E value \in AudioInputDevices :
         source = SourceState(CpalSource_from(value), "from", "Ok", None)

SourceApply(r, name) ==
    /\ source' = SourceState(r.self, name, r.res, source.stream)
    /\ UNCHANGED <<sessionVars, wavclip, timeline, shared, pipeline, hamshark>>

CallPlay ==
    \E outcome \in {"ok", "build_fails", "play_fails"} :
        SourceApply(CpalSource_play(SourceSelf, outcome), "play")

CallPause == SourceApply(CpalSource_pause(SourceSelf), "pause")

CallSourceStop == SourceApply(CpalSource_stop(SourceSelf), "stop")

\* The audio thread delivers a batch of samples to a playing stream.
DataCallback ==
    \E data \in SeqsUpTo(SampleValues, MaxBatch) :
        /\ source.stream # None
        /\ data # <<>>
        /\ Len(unwrap(source.stream).captured) + Len(data) <= MaxSamples
        /\ SourceApply([self |-> CpalSource_data_callback(SourceSelf, data),
                        res |-> "Ok"], "data_callback")

\* The audio thread reports a stream error to the error callback of a
\* playing stream.
ErrorCallback ==
    /\ source.stream # None
    /\ SourceApply([self |-> CpalSource_error_callback(SourceSelf), res |-> "Ok"],
                   "error_callback")

SourceNext ==
    \/ CallPlay
    \/ CallPause
    \/ CallSourceStop
    \/ DataCallback
    \/ ErrorCallback

SourceSpec == SourceInit /\ [][SourceNext]_vars

\* C14: play on a source with no next Sink attached fails with Incomplete,
\* opens no stream, and the source stays Stopped.
C14_PlayIncompleteFails ==
    (source.op = "play" /\ CpalSource_next_element(SourceSelf) = None)
        => /\ source.res = "Incomplete"
           /\ source.stream = None
           /\ CpalSource_state(SourceSelf) = "Stopped"

\* C15: state() reports Stopped or Playing only: Stopped initially and after
\* stop, Playing after a successful play, Paused never.
C15_StateStoppedOrPlaying ==
    /\ CpalSource_state(SourceSelf) \in {"Stopped", "Playing"}
    /\ source.op \in {"from", "stop"} => CpalSource_state(SourceSelf) = "Stopped"
    /\ (source.op = "play" /\ source.res = "Ok")
          => CpalSource_state(SourceSelf) = "Playing"

\* C16: stop always returns success and leaves no stream handle; on a source
\* without a stream it changes nothing; and a second stop changes nothing
\* the first did not.
C16_StopIdempotent ==
    /\ source.op = "stop" => (source.res = "Ok" /\ source.stream = None)
    /\ CpalSource_stop(SourceSelf).res = "Ok"
    /\ source.stream = None => CpalSource_stop(SourceSelf).self = SourceSelf
    /\ CpalSource_stop(CpalSource_stop(SourceSelf).self).self
          = CpalSource_stop(SourceSelf).self

\* stop has just ended a stream that was playing.
C16_Witness ==
    /\ source.op = "stop"
    /\ source.before # None
    /\ source.stream = None

\* C17: pause fails with CannotPause in every state and leaves the stream
\* handle, and so state(), as it was; can_pause is false in every state.
C17_PauseCannotPause ==
    /\ source.op = "pause" => (source.res = "CannotPause" /\ source.stream = source.before)
    /\ CpalSource_pause(SourceSelf).res = "CannotPause"
    /\ CpalSource_pause(SourceSelf).self = SourceSelf
    /\ ~CpalSource_can_pause(SourceSelf)

\* pause has just been refused by a source that is playing and has captured
\* samples.
C17_Witness ==
    /\ source.op = "pause"
    /\ source.res = "CannotPause"
    /\ source.stream # None
    /\ unwrap(source.stream).captured # <<>>

\* C18: a play that fails to build or to start the stream returns a typed
\* error and leaves the source without a stream, as before the call; a
\* source comes to hold a stream only through a play that succeeded.
C18_FailedPlayKeepsNothing ==
    /\ (source.op = "play" /\ source.res # "Ok")
          => /\ source.res \in {"BuildStream", "PlayStream"}
             /\ source.stream = None
             /\ source.stream = source.before
    /\ (source.op = "play" /\ source.res = "Ok") => source.stream # None
    /\ (source.stream # None /\ source.before = None)
          => (source.op = "play" /\ source.res = "Ok")

\* The start of the built stream has just failed and the source holds no stream.
C18_Witness ==
    /\ source.op = "play"
    /\ source.res = "PlayStream"
    /\ source.stream = None

\* C28: a stream error handed to the error callback is recorded: the source
\* differs afterwards in something a status query can read.
C28_DeviceErrorRecorded ==
    [][source'.op = "error_callback"
         => \/ CpalSource_state(SourceSelf') # CpalSource_state(SourceSelf)
            \/ SourceSelf' # SourceSelf]_vars

------------------------------------------------------------------------------
(* Timeline and its Scaler (src/gui/timeline.rs), Selection (src/data/audio.rs) *)

\* Widths the ui allocates to the timeline, clip lengths and offsets explored.
MaxWidth == 2
MaxLen == 2
MaxOffset == 1

\* The f32 scale is held as a number of quarters: 4 is 1.0, 5 is 1.25, 8 is
\* 2.0. With such scales and the small coordinates used here every product
\* and quotient the code floors is computed exactly in f32.
ScaleDen == 4
ScaleOne == ScaleDen
InitialScale == 1024 * ScaleDen
WidgetScales == {ScaleOne, 5, 8}
ZoomScales == {2, 8}
DragDeltas == {-1, 1}
Buttons == {"primary", "secondary"}

\* Selection::new
Selection_new(a, b) == [start |-> Min(a, b), end |-> Max(a, b)]

\* Selection::update_bounds: self.range.start is assigned 7, then a new
\* Selection is returned; self is the selection it leaves behind.
Selection_update_bounds(self, n) ==
    LET started == [self EXCEPT !.start = 7]
    IN  [self |-> started,
         res |-> IF n < started.start
                 THEN [start |-> n, end |-> started.end]
                 ELSE [start |-> started.start, end |-> n]]

\* Scaler::screen_to_data_x_without_offset: floor(x * scale)
screen_to_data_x_without_offset(self, x) == (x * self.scale) \div ScaleDen

\* Scaler::screen_to_data_x
screen_to_data_x(self, x) == screen_to_data_x_without_offset(self, x) + self.offset

\* Scaler::data_to_screen_x_without_offset: floor(x / scale)
data_to_screen_x_without_offset(self, x) == (x * ScaleDen) \div self.scale

\* Scaler::data_to_screen_x
data_to_screen_x(self, x) == data_to_screen_x_without_offset(self, x - self.offset)

\* Scaler::screen_x_coordinate_to_data_range without the clamp of its end.
screen_x_coordinate_to_data_range_unclamped(self, x) ==
    [start |-> screen_to_data_x(self, x), end |-> screen_to_data_x(self, x + 1)]

\* Scaler::screen_x_coordinate_to_data_range: the start is not clamped, the
\* end is clamped into 0 .. data_space().x, which is sample_len.
screen_x_coordinate_to_data_range(self, x) ==
    [start |-> screen_to_data_x(self, x),
     end |-> Max(0, Min(screen_to_data_x(self, x + 1), self.sample_len))]

\* Range::is_empty
is_empty(range) == ~(range.start < range.end)

\* DragState
NotDragging == [kind |-> "NotDragging", x |-> 0]
Dragging == [kind |-> "Dragging", x |-> 0]
DownButNotDragging(x) == [kind |-> "DownButNotDragging", x |-> x]

\* Timeline::new. clip is the number of samples the clip holds. cursor_pos,
\* height, vscale and samples_per_fft only feed the drawing and are not kept.
Timeline_new(clip) ==
    [clip |-> clip, offset |-> 0, width |-> 1, sample_len |-> 0,
     scale |-> InitialScale, live |-> TRUE, selection |-> None,
     drag_state |-> NotDragging]

\* correct_drag_delta passing on the reported delta on the first motion too.
correct_drag_delta_reported(self, cur, delta) ==
    IF self.drag_state.kind = "DownButNotDragging"
    THEN IF cur # None
         THEN [self |-> [self EXCEPT !.drag_state = Dragging],
               delta |-> delta, res |-> "Ok"]
         ELSE [self |-> self, delta |-> 0, res |-> "panic"]
    ELSE IF self.drag_state.kind = "Dragging"
    THEN [self |-> self, delta |-> delta, res |-> "Ok"]
    ELSE [self |-> self, delta |-> 0, res |-> "panic"]

\* Timeline::correct_drag_delta. cur is the pointer position inside the
\* widget, if any; delta the drag delta the framework reports.
correct_drag_delta(self, cur, delta) ==
    IF self.drag_state.kind = "DownButNotDragging"
    THEN IF cur # None
         THEN [self |-> [self EXCEPT !.drag_state = Dragging],
               delta |-> unwrap(cur) - self.drag_state.x, res |-> "Ok"]
         ELSE [self |-> self, delta |-> 0, res |-> "panic"]
    ELSE IF self.drag_state.kind = "Dragging"
    THEN [self |-> self, delta |-> delta, res |-> "Ok"]
    ELSE [self |-> self, delta |-> 0, res |-> "panic"]

\* Timeline::pan_action
pan_action(self, delta) ==
    [self EXCEPT !.live = FALSE,
                 !.offset = Max(0, self.offset - screen_to_data_x_without_offset(self, delta))]

\* update_scale taking the coordinate under screen_pos after the scale is set.
update_scale_rescales_first(self, scale, screen_pos) ==
    LET clamped == Max(scale, ScaleOne)
        scaled == [self EXCEPT !.scale = clamped]
        adj_offset == screen_to_data_x(scaled, screen_pos)
        new_offset == adj_offset - screen_to_data_x_without_offset(scaled, screen_pos)
    IN  IF self.scale = clamped THEN self
        ELSE IF ~self.live THEN [scaled EXCEPT !.offset = Max(0, new_offset)]
        ELSE scaled

\* update_scale moving the offset whether the timeline is live or not.
update_scale_moves_live_offset(self, scale, screen_pos) ==
    LET clamped == Max(scale, ScaleOne)
        adj_offset == screen_to_data_x(self, screen_pos)
        scaled == [self EXCEPT !.scale = clamped]
        new_offset == adj_offset - screen_to_data_x_without_offset(scaled, screen_pos)
    IN  IF self.scale = clamped THEN self
        ELSE [scaled EXCEPT !.offset = Max(0, new_offset)]

\* Timeline::update_scale
update_scale(self, scale, screen_pos) ==
    LET clamped == Max(scale, ScaleOne)
        adj_offset == screen_to_data_x(self, screen_pos)
        scaled == [self EXCEPT !.scale = clamped]
        new_offset == adj_offset - screen_to_data_x_without_offset(scaled, screen_pos)
    IN  IF self.scale = clamped THEN self
        ELSE IF ~self.live THEN [scaled EXCEPT !.offset = Max(0, new_offset)]
        ELSE scaled

\* The live step of update_and_show_sample_explorer: the sample count of the
\* clip is recorded and, when live, the offset follows it.
follow_live(self) ==
    LET counted == [self EXCEPT !.sample_len = self.clip]
        data_vis_width == screen_to_data_x_without_offset(counted, counted.width)
        newoffset == counted.sample_len - data_vis_width
    IN  IF counted.live
        THEN [counted EXCEPT !.offset = IF newoffset < 0 THEN 0 ELSE newoffset]
        ELSE counted

\* The pointer handling of update_and_show_sample_explorer.
\* in.down: a button is down on the widget; in.pos: the pointer position of
\* the interaction, if inside the widget; in.dragged: the button dragging
\* the widget, or "none"; in.delta: the reported drag delta.
handle_pointer(self, in) ==
    LET pressed ==
            IF in.down
            THEN IF self.drag_state = NotDragging /\ in.pos # None
                 THEN [self EXCEPT !.drag_state = DownButNotDragging(unwrap(in.pos))]
                 ELSE self
            ELSE [self EXCEPT !.drag_state = NotDragging]
    IN  IF in.dragged = "primary"
        THEN IF in.pos # None
             THEN LET current == screen_to_data_x(pressed, unwrap(in.pos))
                  IN  IF pressed.drag_state.kind = "DownButNotDragging"
                      THEN [self |-> [pressed EXCEPT !.selection =
                                         Some(Selection_new(
                                            screen_to_data_x(pressed, pressed.drag_state.x),
                                            current))],
                            res |-> "Ok"]
                      ELSE IF pressed.selection # None
                      THEN [self |-> [pressed EXCEPT !.selection =
                                         Some(Selection_update_bounds(
                                            unwrap(pressed.selection), current).self)],
                            res |-> "Ok"]
                      ELSE [self |-> pressed, res |-> "Ok"]
             ELSE [self |-> pressed, res |-> "Ok"]
        ELSE IF in.dragged = "secondary"
        THEN LET corrected == correct_drag_delta(pressed, in.pos, in.delta)
             IN  IF corrected.res = "panic"
                 THEN [self |-> corrected.self, res |-> "panic"]
                 ELSE [self |-> pan_action(corrected.self, corrected.delta), res |-> "Ok"]
        ELSE [self |-> pressed, res |-> "Ok"]

\* The hover handling of update_and_show_sample_explorer. in.hover: the
\* hover position inside the widget, if any; in.zoom: the scale times the
\* zoom delta of the frame.
handle_hover(self, in) ==
    IF in.hover # None
    THEN update_scale(self, in.zoom, unwrap(in.hover))
    ELSE self

\* Timeline::update_and_show_sample_explorer
update_and_show_sample_explorer(self, in) ==
    LET pointed == handle_pointer(follow_live(self), in)
    IN  IF pointed.res = "panic" THEN pointed
        ELSE [self |-> handle_hover(pointed.self, in), res |-> "Ok"]

\* Timeline::update_and_show. in.width: the width the ui has available;
\* in.live: the checkbox; in.newscale: the value of the scale widget.
update_and_show(self, in) ==
    LET sized == [self EXCEPT !.width = in.width, !.live = in.live]
        scaled == update_scale(sized, in.newscale, sized.width \div 2)
    IN  update_and_show_sample_explorer(scaled, in)

\* The Timeline of the state.
TimelineSelf ==
    [clip |-> timeline.clip, offset |-> timeline.offset, width |-> timeline.width,
     sample_len |-> timeline.sample_len, scale |-> timeline.scale,
     live |-> timeline.live, selection |-> timeline.selection,
     drag_state |-> timeline.drag_state]

\* The timeline after a step, with the step, its result, the button held
\* on the widget ("none" when none is), and whether the secondary button
\* was ever used.
TimelineState(self, name, res, held, secondary) ==
    [clip |-> self.clip, offset |-> self.offset, width |-> self.width,
     sample_len |-> self.sample_len, scale |-> self.scale,
     live |-> self.live, selection |-> self.selection,
     drag_state |-> self.drag_state,
     op |-> name, res |-> res, held |-> held, secondary |-> secondary]

\* A frame in which the ui reports nothing new.
Quiet ==
    [width |-> timeline.width, live |-> timeline.live, newscale |-> timeline.scale,
     down |-> FALSE, pos |-> None, dragged |-> "none", delta |-> 0,
     hover |-> None, zoom |-> timeline.scale]

\* Pointer positions inside a widget of the current width, or none.
Positions == {None} \cup {Some(x) : x \in 0 .. (timeline.width - 1)}

TimelineInit ==
    /\ NoSession
    /\ wavclip = NotConstructed
    /\ source = NotConstructed
    /\ shared = NotConstructed
    /\ pipeline = NotConstructed
    /\ hamshark = NotConstructed
    /\ \E clip \in 0 .. MaxLen :
         timeline = TimelineState(Timeline_new(clip), "new", "Ok", "none", FALSE)

\* One frame: update_and_show runs on the inputs of the frame.
Frame(in, name, held) ==
    LET r == update_and_show(TimelineSelf, in)
    IN  /\ timeline.res = "Ok"
        /\ r.self.offset <= MaxOffset
        /\ timeline' = TimelineState(r.self, name, r.res, held,
                                     timeline.secondary \/ held = "secondary")
        /\ UNCHANGED <<sessionVars, wavclip, source, shared, pipeline, hamshark>>

\* No button is down and nothing is zoomed.
FrameIdle == Frame(Quiet, "idle", "none")

FrameResize ==
    \E width \in 1 .. MaxWidth :
        /\ width # timeline.width
        /\ Frame([Quiet EXCEPT !.width = width], "resize", "none")

FrameToggleLive ==
    Frame([Quiet EXCEPT !.live = ~timeline.live], "live", "none")

FrameScale ==
    \E newscale \in WidgetScales :
        /\ newscale # timeline.scale
        /\ Frame([Quiet EXCEPT !.newscale = newscale], "scale", "none")

FrameZoom ==
    \E hover \in Positions \ {None}, zoom \in ZoomScales :
        /\ zoom # timeline.scale
        /\ Frame([Quiet EXCEPT !.hover = hover, !.zoom = zoom], "zoom", "none")

\* A button goes down on the widget, or stays down without moving.
FramePress ==
    \E button \in Buttons, pos \in Positions :
        Frame([Quiet EXCEPT !.down = TRUE, !.pos = pos, !.hover = pos], "press",
              button)

\* The pointer moves with a button held since an earlier frame.
FrameDrag ==
    \E pos \in Positions, delta \in DragDeltas :
        /\ timeline.held \in Buttons
        /\ Frame([Quiet EXCEPT !.down = TRUE, !.pos = pos, !.hover = pos,
                               !.dragged = timeline.held, !.delta = delta],
                 "drag", timeline.held)

\* The capture side appends samples to the clip between frames.
AppendSamples ==
    \E n \in 1 .. MaxBatch :
        /\ timeline.res = "Ok"
        /\ timeline.clip + n <= MaxLen
        /\ timeline' = [timeline EXCEPT !.clip = @ + n, !.op = "append"]
        /\ UNCHANGED <<sessionVars, wavclip, source, shared, pipeline, hamshark>>

TimelineNext ==
    \/ FrameIdle
    \/ FrameResize
    \/ FrameToggleLive
    \/ FrameScale
    \/ FrameZoom
    \/ FramePress
    \/ FrameDrag
    \/ AppendSamples

TimelineSpec == TimelineInit /\ [][TimelineNext]_vars

\* C19: as long as only the primary button has been used, a Selection that
\* exists has start <= end and both within [0, sample count of the clip].
C19_SelectionWithinSamples ==
    (timeline.selection # None /\ ~timeline.secondary)
        => LET range == unwrap(timeline.selection)
           IN  /\ range.start <= range.end
               /\ 0 <= range.start
               /\ range.end <= timeline.clip

\* C20: while live, after each frame the offset is
\* max(0, sample_len - screen_to_data_x_without_offset(width)); when the
\* samples fill the visible width the most recent sample is at pixel column
\* width - 1, and otherwise the offset is 0.
C20_LiveFollowsNewest ==
    (timeline.live /\ timeline.op \notin {"new", "append"})
        => LET visible == screen_to_data_x_without_offset(TimelineSelf, timeline.width)
           IN  /\ timeline.offset = Max(0, timeline.sample_len - visible)
               /\ timeline.sample_len >= visible
                     => data_to_screen_x(TimelineSelf, timeline.sample_len - 1)
                           = timeline.width - 1
               /\ timeline.sample_len < visible => timeline.offset = 0

\* C21: a frame in which a drag acted - a secondary-button pan, or a
\* primary-button drag that set the selection - leaves live false.
C21_DragDisablesLive ==
    [][(/\ timeline'.op = "drag"
        /\ timeline'.res = "Ok"
        /\ \/ timeline'.held = "secondary"
           \/ timeline'.selection # timeline.selection)
          => ~timeline'.live]_vars

\* The scales and positions update_scale is asked about.
AskedScales == WidgetScales \cup ZoomScales \cup {InitialScale}
AskedPositions == 0 .. (timeline.width - 1)

\* C22 as stated: with live off, update_scale leaves the data coordinate
\* under screen_pos as it was, for every scale and every screen_pos.
C22_ZoomKeepsCoordinate ==
    ~timeline.live =>
        \A scale \in AskedScales, screen_pos \in AskedPositions :
            screen_to_data_x(update_scale(TimelineSelf, scale, screen_pos), screen_pos)
                = screen_to_data_x(TimelineSelf, screen_pos)

\* C22, amended: with live off, update_scale leaves the data coordinate under
\* screen_pos as it was whenever that coordinate is at least
\* floor(screen_pos * new scale); otherwise the offset becomes 0 and the
\* coordinate becomes floor(screen_pos * new scale). The new scale is the
\* requested one raised to at least 1.0.
C22_ZoomKeepsCoordinateUnlessClamped ==
    ~timeline.live =>
        \A scale \in AskedScales, screen_pos \in AskedPositions :
            LET after == update_scale(TimelineSelf, scale, screen_pos)
                before == screen_to_data_x(TimelineSelf, screen_pos)
                reach == (screen_pos * Max(scale, ScaleOne)) \div ScaleDen
            IN  /\ after.scale = Max(scale, ScaleOne)
                /\ before >= reach => screen_to_data_x(after, screen_pos) = before
                /\ (before < reach /\ after.scale # timeline.scale)
                      => (after.offset = 0 /\ screen_to_data_x(after, screen_pos) = reach)

\* The scale widget has just changed the scale of a timeline that is not
\* live and is scrolled away from the start.
C22_Witness ==
    /\ timeline.op = "scale"
    /\ ~timeline.live
    /\ timeline.offset > 0
    /\ timeline.scale = 5

\* C23: for every pixel column x of the width, the data range of x starts at
\* floor(x*scale)+offset and ends at min(floor((x+1)*scale)+offset,
\* sample_len); the range of x ends where that of x+1 starts unless the data
\* ends before; a range is empty exactly when its start is at or beyond
\* sample_len; and width 100, scale 10, offset 0, 1500 samples gives
\* 990..1000 for column 99.
C23_ColumnsTileData ==
    /\ \A x \in 0 .. (timeline.width - 1) :
          LET range == screen_x_coordinate_to_data_range(TimelineSelf, x)
              next == screen_x_coordinate_to_data_range(TimelineSelf, x + 1)
          IN  /\ range.start = ((x * timeline.scale) \div ScaleDen) + timeline.offset
              /\ range.end = Min((((x + 1) * timeline.scale) \div ScaleDen) + timeline.offset,
                                 timeline.sample_len)
              /\ range.end = Min(next.start, timeline.sample_len)
              /\ is_empty(range) <=> range.start >= timeline.sample_len
    /\ screen_x_coordinate_to_data_range(
          [scale |-> 10 * ScaleDen, offset |-> 0, sample_len |-> 1500, width |-> 100], 99)
          = [start |-> 990, end |-> 1000]

\* A timeline at scale 1.25, scrolled to offset 1 over 2 samples and 2
\* columns wide: column 0 holds a sample and column 1 is empty.
C23_Witness ==
    /\ timeline.scale = 5
    /\ timeline.width = 2
    /\ timeline.offset = 1
    /\ timeline.sample_len = 2
    /\ ~is_empty(screen_x_coordinate_to_data_range(TimelineSelf, 0))
    /\ is_empty(screen_x_coordinate_to_data_range(TimelineSelf, 1))

\* C31: a motion frame of a primary-button drag whose press origin is at
\* data coordinate a leaves the Selection [min(a,c), max(a,c)) for the data
\* coordinate c of some pointer position of the frame, or leaves the
\* Selection alone when the pointer is outside the widget. Only the primary
\* button has been used; a is the data coordinate of the origin when the
\* motion frame starts.
C31_SelectionAnchoredAtOrigin ==
    [][(/\ timeline'.op = "drag"
        /\ timeline'.res = "Ok"
        /\ timeline.held = "primary"
        /\ ~timeline'.secondary
        /\ timeline.drag_state.kind = "DownButNotDragging")
          => LET a == screen_to_data_x(TimelineSelf, timeline.drag_state.x)
             IN  \/ timeline'.selection = timeline.selection
                 \/ \E x \in 0 .. (timeline.width - 1) :
                       timeline'.selection
                          = Some(Selection_new(a, screen_to_data_x(TimelineSelf', x)))]_vars

\* C32: while live, update_scale changes the scale, to the requested one
\* raised to at least 1.0, and nothing else; and live or not, when that
\* scale is the current one update_scale changes nothing.
C32_LiveScaleKeepsOffset ==
    \A scale \in AskedScales \cup {timeline.scale}, screen_pos \in AskedPositions :
        LET after == update_scale(TimelineSelf, scale, screen_pos)
            clamped == Max(scale, ScaleOne)
        IN  /\ timeline.live => after = [TimelineSelf EXCEPT !.scale = clamped]
            /\ clamped = timeline.scale => after = TimelineSelf

\* The scale widget has just changed the scale of a live timeline whose
\* view is scrolled to the newest samples, away from the start.
C32_Witness ==
    /\ timeline.op = "scale"
    /\ timeline.live
    /\ timeline.scale = 5
    /\ timeline.offset > 0

\* C33: with either button, a press leaves the drag state NotDragging
\* only if it was NotDragging, a motion frame takes DownButNotDragging and
\* Dragging to Dragging, and every frame without a button down leaves
\* NotDragging; Dragging is entered only from a state with a button held.
C33_DragStateTransitions ==
    [][(timeline'.op \notin {"append"} /\ timeline'.res = "Ok")
          => /\ (timeline'.op = "press" /\ timeline.drag_state = NotDragging)
                   => timeline'.drag_state.kind \in {"NotDragging", "DownButNotDragging"}
             /\ (timeline'.op = "drag" /\ timeline.drag_state.kind # "NotDragging")
                   => timeline'.drag_state = Dragging
             /\ timeline'.held = "none" => timeline'.drag_state = NotDragging
             /\ (timeline'.drag_state = Dragging /\ timeline.drag_state # Dragging)
                   => timeline.held \in Buttons]_vars

\* A secondary-button drag is about to report its first motion.
PanStarts ==
    /\ timeline.res = "Ok"
    /\ timeline.held = "secondary"
    /\ timeline.drag_state.kind = "DownButNotDragging"

\* The pan of a first motion to cur1, with the framework reporting delta,
\* then of a second motion from cur1 to cur2.
PanTwice(cur1, delta, cur2) ==
    LET first == correct_drag_delta(TimelineSelf, Some(cur1), delta)
        panned == pan_action(first.self, first.delta)
        second == correct_drag_delta(panned, Some(cur2), cur2 - cur1)
    IN  [first |-> first, panned |-> panned, second |-> second,
         last |-> pan_action(second.self, second.delta)]

\* The offset is clamped at 0 by neither pan.
PanUnclamped(cur1, cur2) ==
    LET origin == timeline.drag_state.x
        once == timeline.offset - screen_to_data_x_without_offset(TimelineSelf, cur1 - origin)
    IN  /\ once >= 0
        /\ once - screen_to_data_x_without_offset(TimelineSelf, cur2 - cur1) >= 0

MaxCaptured == 3

\* Samples of one data callback.
MaxCallback == 2

Threads == {"capture", "gui"}

Locks == {"entry", "store"}

\* The two capture callbacks that append to a shared sample store.
Writers == {"SampleRecorder", "CpalSource"}

NoRequest == {}

Request(lock, mode) == {<<lock, mode>>}

\* t holds lock l, shared or exclusive.
holds(sh, t, l) == t \in sh.readers[l] \/ t \in sh.writer[l]

\* Threads parked in write() on l.
write_waiters(sh, l) == {t \in Threads : sh.waiting[t] = Request(l, "write")}

\* RwLock::read returns: no writer holds the lock and none is parked on it.
can_read(sh, l) == sh.writer[l] = {} /\ write_waiters(sh, l) = {}

\* RwLock::write returns: nobody holds the lock.
can_write(sh, l) == sh.writer[l] = {} /\ sh.readers[l] = {}

\* t calls read() or write() on l and continues at pc once it returns.
request(sh, t, l, mode, pc) ==
    [sh EXCEPT !.waiting[t] = Request(l, mode), !.pc[t] = pc]

\* The call t is parked in can return.
can_grant(sh, t) ==
    /\ sh.waiting[t] # NoRequest
    /\ LET rq == unwrap(sh.waiting[t])
       IN  IF rq[2] = "read" THEN can_read(sh, rq[1]) ELSE can_write(sh, rq[1])

\* The call t is parked in returns its guard.
grant(sh, t) ==
    LET rq == unwrap(sh.waiting[t])
    IN  IF rq[2] = "read"
        THEN [sh EXCEPT !.readers[rq[1]] = @ \cup {t}, !.waiting[t] = NoRequest]
        ELSE [sh EXCEPT !.writer[rq[1]] = {t}, !.waiting[t] = NoRequest]

\* t drops its guard of l.
release(sh, t, l) ==
    [sh EXCEPT !.readers[l] = @ \ {t}, !.writer[l] = @ \ {t}]

\* The data callback starts on a batch of n samples. SampleRecorder returns
\* at once when write_error is set, else takes the store's write lock for
\* the whole batch; CpalSource takes it for the first sample.
data_callback(sh, n) ==
    IF sh.kind = "SampleRecorder" /\ sh.write_error # None
    THEN sh
    ELSE request([sh EXCEPT !.batch = n, !.pushed = 0],
                 "capture", "store", "write", "push")

\* One sample of the batch is appended under the write lock. CpalSource
\* drops the guard with the statement and goes on to the next sample of its
\* loop; write_samples appends the whole batch under the guard of its caller.
push_sample(sh) ==
    LET pushed == [sh EXCEPT !.len = @ + 1, !.pushed = @ + 1]
        whole == pushed.pushed = pushed.batch
        done == IF whole THEN [pushed EXCEPT !.sizes = Append(@, pushed.batch)]
                         ELSE pushed
    IN  IF sh.kind = "CpalSource"
        THEN IF whole
             THEN [release(done, "capture", "store") EXCEPT !.pc["capture"] = "idle"]
             ELSE [release(done, "capture", "store") EXCEPT !.pc["capture"] = "next"]
        ELSE IF whole
             THEN [done EXCEPT !.pc["capture"] = "encode"]
             ELSE done

\* CpalSource locks the store again for the next sample of the batch.
next_sample(sh) == request(sh, "capture", "store", "write", "push")

\* write_samples encodes the batch to the file and returns; on an error the
\* callback stores it in write_error; the guard is dropped as the callback
\* returns.
encode_batch(sh, fail) ==
    LET stored == IF fail THEN [sh EXCEPT !.write_error = Some("Audio")] ELSE sh
    IN  [release(stored, "capture", "store") EXCEPT !.pc["capture"] = "idle"]

\* The error callback of a SampleRecorder looks at write_error and returns
\* when it is set.
error_callback_check(sh) ==
    IF sh.write_error # None THEN sh ELSE [sh EXCEPT !.error_pc = "store"]

\* The error callback stores the stream error in write_error.
error_callback_store(sh) ==
    [sh EXCEPT !.write_error = Some("DuringStream"), !.error_pc = "idle"]

\* What the presentation thread runs on the clip in a frame: the clip's
\* window with its timeline, or a click that opens the clip, against a
\* SampleRecorder; the amplitude view against the store of a CpalSource.
Routines(sh) ==
    IF sh.kind = "SampleRecorder" THEN {"window", "open_clip"} ELSE {"amplitudes"}

\* The routine starts by reading the entry, or the store for the amplitudes.
gui_begin(sh, routine) ==
    LET started == [sh EXCEPT !.routine = routine]
    IN  CASE routine = "window" -> request(started, "gui", "entry", "read", "is_open")
          [] routine = "open_clip" -> request(started, "gui", "entry", "read", "path")
          [] routine = "amplitudes" -> request(started, "gui", "store", "read", "snapshot")

\* The window loop skips a clip that is not open, else shows its timeline,
\* which reads the store.
window_is_open(sh) ==
    IF sh.is_open
    THEN request(sh, "gui", "store", "read", "snapshot")
    ELSE [release(sh, "gui", "entry") EXCEPT !.pc["gui"] = "idle"]

\* sample_len = samples.len() under the read guard.
take_snapshot(sh) == [sh EXCEPT !.snapshot = sh.len, !.pc["gui"] = "render"]

\* The loop over the columns of the view, under the read guard.
render_columns(sh) == [sh EXCEPT !.pc["gui"] = "drop"]

\* The read guard of the store is dropped after the loop.
drop_read_lock(sh) ==
    [release(sh, "gui", "store") EXCEPT
        !.pc["gui"] = IF sh.routine = "window" THEN "shown" ELSE "idle"]

\* The window loop asks for the write lock of the entry while it still holds
\* its read guard.
window_shown_keeps_guard(sh, open) ==
    IF open
    THEN [release(sh, "gui", "entry") EXCEPT !.pc["gui"] = "idle"]
    ELSE request(sh, "gui", "entry", "write", "close")

\* The window loop drops its read guard of the entry, then takes the write
\* lock when the user has closed the window.
window_shown(sh, open) ==
    IF open
    THEN [release(sh, "gui", "entry") EXCEPT !.pc["gui"] = "idle"]
    ELSE request(release(sh, "gui", "entry"), "gui", "entry", "write", "close")

\* close() under the write guard, a temporary of the statement.
window_close(sh) ==
    [release(sh, "gui", "entry") EXCEPT !.is_open = FALSE, !.pc["gui"] = "idle"]

\* The path is cloned under a read guard that ends with its block; on a
\* match the entry is locked for writing.
open_clip_path(sh, match) ==
    IF match
    THEN request(release(sh, "gui", "entry"), "gui", "entry", "write", "open")
    ELSE [release(sh, "gui", "entry") EXCEPT !.pc["gui"] = "idle"]

\* open() under the write guard.
open_clip_open(sh) ==
    [release(sh, "gui", "entry") EXCEPT !.is_open = TRUE, !.pc["gui"] = "idle"]

\* The shared state after a step, with the step's name.
SharedState(sh, name) ==
    [kind |-> sh.kind, len |-> sh.len, sizes |-> sh.sizes,
     readers |-> sh.readers, writer |-> sh.writer,
     waiting |-> sh.waiting, pc |-> sh.pc, batch |-> sh.batch,
     pushed |-> sh.pushed, routine |-> sh.routine,
     snapshot |-> sh.snapshot, is_open |-> sh.is_open,
     write_error |-> sh.write_error, error_pc |-> sh.error_pc, op |-> name]

\* A clip that has just started recording, closed in the session's list,
\* with either capture callback about to run.
SharedInit ==
    /\ NoSession
    /\ wavclip = NotConstructed
    /\ source = NotConstructed
    /\ timeline = NotConstructed
    /\ pipeline = NotConstructed
    /\ hamshark = NotConstructed
    /\ \E kind \in Writers :
         shared = SharedState(
            [kind |-> kind, len |-> 0, sizes |-> <<>>,
             readers |-> [l \in Locks |-> {}], writer |-> [l \in Locks |-> {}],
             waiting |-> [t \in Threads |-> NoRequest],
             pc |-> [t \in Threads |-> "idle"], batch |-> 0, pushed |-> 0,
             routine |-> "none", snapshot |-> 0, is_open |-> FALSE,
             write_error |-> None, error_pc |-> "idle"], "new")

\* Thread t is at pc and not parked in a lock call.
At(t, pc) == shared.pc[t] = pc /\ shared.waiting[t] = NoRequest

SharedApply(sh, name) ==
    /\ shared' = SharedState(sh, name)
    /\ UNCHANGED <<sessionVars, wavclip, source, timeline, pipeline, hamshark>>

\* The lock call the capture thread is parked in returns.
GrantCapture ==
    /\ can_grant(shared, "capture")
    /\ SharedApply(grant(shared, "capture"), "grant_capture")

\* The lock call the presentation thread is parked in returns.
GrantGui ==
    /\ can_grant(shared, "gui")
    /\ SharedApply(grant(shared, "gui"), "grant_gui")

\* The audio host calls the data callback with a batch.
CaptureBegin ==
    \E n \in 1 .. Min(MaxCallback, MaxCaptured - shared.len) :
        /\ At("capture", "idle")
        /\ SharedApply(data_callback(shared, n), "data_callback")

CapturePush ==
    /\ At("capture", "push")
    /\ SharedApply(push_sample(shared), "push")

CaptureNext ==
    /\ At("capture", "next")
    /\ SharedApply(next_sample(shared), "next")

CaptureEncode ==
    \E fail \in BOOLEAN :
        /\ At("capture", "encode")
        /\ SharedApply(encode_batch(shared, fail), "encode")

GuiBegin ==
    \E routine \in Routines(shared) :
        /\ At("gui", "idle")
        /\ SharedApply(gui_begin(shared, routine), "begin")

GuiIsOpen ==
    /\ At("gui", "is_open")
    /\ SharedApply(window_is_open(shared), "is_open")

GuiSnapshot ==
    /\ At("gui", "snapshot")
    /\ SharedApply(take_snapshot(shared), "snapshot")

GuiRender ==
    /\ At("gui", "render")
    /\ SharedApply(render_columns(shared), "render")

GuiDrop ==
    /\ At("gui", "drop")
    /\ SharedApply(drop_read_lock(shared), "drop")

GuiShown ==
    \E open \in BOOLEAN :
        /\ At("gui", "shown")
        /\ SharedApply(window_shown(shared, open), "shown")

GuiClose ==
    /\ At("gui", "close")
    /\ SharedApply(window_close(shared), "close")

GuiPath ==
    \E match \in BOOLEAN :
        /\ At("gui", "path")
        /\ SharedApply(open_clip_path(shared, match), "path")

GuiOpen ==
    /\ At("gui", "open")
    /\ SharedApply(open_clip_open(shared), "open")

\* The audio host reports a stream error to a SampleRecorder.
ErrorCheck ==
    /\ shared.kind = "SampleRecorder"
    /\ shared.error_pc = "idle"
    /\ SharedApply(error_callback_check(shared), "error_callback")

ErrorStore ==
    /\ shared.error_pc = "store"
    /\ SharedApply(error_callback_store(shared), "error_stored")

CaptureStep == CaptureBegin \/ CapturePush \/ CaptureNext \/ CaptureEncode

GuiStep ==
    \/ GuiBegin
    \/ GuiIsOpen
    \/ GuiSnapshot
    \/ GuiRender
    \/ GuiDrop
    \/ GuiShown
    \/ GuiClose
    \/ GuiPath
    \/ GuiOpen

SharedNext ==
    \/ GrantCapture
    \/ GrantGui
    \/ CaptureBegin
    \/ CapturePush
    \/ CaptureNext
    \/ CaptureEncode
    \/ GuiBegin
    \/ GuiIsOpen
    \/ GuiSnapshot
    \/ GuiRender
    \/ GuiDrop
    \/ GuiShown
    \/ GuiClose
    \/ GuiPath
    \/ GuiOpen
    \/ ErrorCheck
    \/ ErrorStore

SharedSpec == SharedInit /\ [][SharedNext]_vars

\* Each thread keeps running, and a parked lock call that can return again
\* and again does return: parking_lot hands a lock over to a parked thread.
SharedFairSpec ==
    /\ SharedSpec
    /\ WF_vars(CaptureStep)
    /\ WF_vars(GuiStep)
    /\ SF_vars(GrantCapture)
    /\ SF_vars(GrantGui)

RECURSIVE Boundaries(_)
\* The lengths of the store at which every batch is wholly appended or not
\* at all.
Boundaries(sizes) ==
    IF sizes = <<>> THEN {0}
    ELSE LET front == Boundaries(SubSeq(sizes, 1, Len(sizes) - 1))
             total == CHOOSE m \in front : \A k \in front : k <= m
         IN  front \cup {total + sizes[Len(sizes)]}

\* C26: every length a reader snapshots from the sample store is the length
\* after a whole number of the batches appended so far: it never exceeds the
\* samples fully appended and never takes in part of a batch the writer is
\* appending.
C26_SnapshotAtBatchBoundary ==
    shared.snapshot \in Boundaries(shared.sizes)

\* The presentation thread asks for a lock of the clip that it already holds.
RecursiveRequest ==
    \E l \in Locks, mode \in {"read", "write"} :
        shared.waiting["gui"] = Request(l, mode) /\ holds(shared, "gui", l)

Parked(t) == shared.waiting[t] # NoRequest

\* C27: the presentation thread never asks for a lock of the clip while it
\* holds that lock, and every lock call of the capture thread and of the
\* presentation thread eventually returns.
C27_EveryRequestGranted ==
    /\ []~RecursiveRequest
    /\ Parked("capture") ~> ~Parked("capture")
    /\ Parked("gui") ~> ~Parked("gui")

\* The capture thread is parked in write() on the store while the
\* presentation thread, in the window of the opened clip, has rendered under
\* its read guard of the store and not yet dropped it.
C27_Witness ==
    /\ shared.kind = "SampleRecorder"
    /\ shared.waiting["capture"] = Request("store", "write")
    /\ At("gui", "drop")
    /\ holds(shared, "gui", "store")
    /\ holds(shared, "gui", "entry")
    /\ shared.len > 0

\* C38: in a SampleRecorder, once write_error is set no step changes it
\* and no step adds a sample to the clip.
C38_FirstErrorKept ==
    [][(shared.kind = "SampleRecorder" /\ shared.write_error # None)
         => /\ shared'.write_error = shared.write_error
            /\ shared'.len = shared.len]_vars

\* C35: when the presentation thread has run the loop over the columns of
\* the view it holds no read guard of the sample store, so the capture thread
\* is not parked on the store for the length of a render pass.
C35_RendersWithoutLock ==
    shared.op = "render" => ~holds(shared, "gui", "store")

\* ---------------------------------------------------------------------
\* A chain of pipeline elements: SampleBuffers, each a Sink and a Source
\* with a next element, and a WavSink, a Sink that ends a chain. Element i
\* of the chain has element i + 1 as its next; the last has none.

\* Elements of a chain.
MaxChain == 4

\* Samples a SampleBuffer takes in a run.
MaxProcessed == 3

\* What the writer of a WavSink can answer to a batch.
SinkOutcomes == {"Ok", "PlatformError(IoError)", "PlatformError(FormatError)"}

\* SampleBuffer::default, and a WavSink on a new file.
NewElement(kind) == [kind |-> kind, samples |-> 0]

\* SampleBuffer::next_element
next_element(chain, i) == IF i < Len(chain) THEN Some(i + 1) ELSE None

\* SampleBuffer::set_next_element: the element that was next, and what
\* followed it, is no longer part of the chain.
set_next_element(chain, i, element) == Append(SubSeq(chain, 1, i), element)

\* Element::is_complete of a Sink
Sink_is_complete(chain, i) == TRUE

\* Element::is_complete of a Source
Source_is_complete(chain, i) ==
    IF next_element(chain, i) # None
    THEN Sink_is_complete(chain, unwrap(next_element(chain, i)))
    ELSE FALSE

RECURSIVE Sink_process(_, _, _, _, _)
\* Sink::process of element i on a batch of n samples. A WavSink writes
\* the samples and answers with its writer's outcome, having written wrote
\* of them when that is an error; a SampleBuffer extends its samples and
\* returns what process of its next element returns, and panics in unwrap
\* when it has none. sink is what the WavSink answered, if it was reached.
Sink_process(chain, i, n, outcome, wrote) ==
    IF chain[i].kind = "WavSink"
    THEN [chain |-> [chain EXCEPT ![i].samples =
                        @ + (IF outcome = "Ok" THEN n ELSE wrote)],
          res |-> outcome, sink |-> Some(outcome)]
    ELSE LET extended == [chain EXCEPT ![i].samples = @ + n]
         IN  IF next_element(chain, i) = None
             THEN [chain |-> extended, res |-> "panic", sink |-> None]
             ELSE Sink_process(extended, unwrap(next_element(chain, i)), n, outcome, wrote)

\* The chain after a call, with the call, its result and what the WavSink
\* answered in it.
PipelineState(chain, name, res, sink) ==
    [chain |-> chain, op |-> name, res |-> res, sink |-> sink]

\* A SampleBuffer with nothing attached.
PipelineInit ==
    /\ NoSession
    /\ wavclip = NotConstructed
    /\ source = NotConstructed
    /\ timeline = NotConstructed
    /\ shared = NotConstructed
    /\ hamshark = NotConstructed
    /\ pipeline = PipelineState(<<NewElement("SampleBuffer")>>, "default", "Ok", None)

\* A new element is attached as the next of a SampleBuffer of the chain.
CallSetNextElement ==
    \E i \in 1 .. Min(Len(pipeline.chain), MaxChain - 1),
       kind \in {"SampleBuffer", "WavSink"} :
        /\ pipeline.res # "panic"
        /\ pipeline.chain[i].kind = "SampleBuffer"
        /\ pipeline' = PipelineState(
              set_next_element(pipeline.chain, i, NewElement(kind)),
              "set_next_element", "Ok", None)
        /\ UNCHANGED <<sessionVars, wavclip, source, timeline, shared, hamshark>>

\* A batch is handed to the first element of a chain that reports complete.
CallProcess ==
    \E n \in 1 .. (MaxProcessed - pipeline.chain[1].samples),
       outcome \in SinkOutcomes, wrote \in 0 .. (MaxProcessed - 1) :
        /\ pipeline.res # "panic"
        /\ Source_is_complete(pipeline.chain, 1)
        /\ wrote < n
        /\ outcome = "Ok" => wrote = 0
        /\ LET r == Sink_process(pipeline.chain, 1, n, outcome, wrote)
           IN  pipeline' = PipelineState(r.chain, "process", r.res, r.sink)
        /\ UNCHANGED <<sessionVars, wavclip, source, timeline, shared, hamshark>>

PipelineNext == CallSetNextElement \/ CallProcess

PipelineSpec == PipelineInit /\ [][PipelineNext]_vars

\* C36: when the first element of the chain reports complete, every
\* SampleBuffer of the chain has a next element, no process call panics on
\* a missing one, and process returns what the WavSink answered.
C36_CompleteChainIsLinked ==
    Source_is_complete(pipeline.chain, 1)
        => /\ \A i \in 1 .. Len(pipeline.chain) :
                 pipeline.chain[i].kind = "SampleBuffer"
                    => next_element(pipeline.chain, i) # None
           /\ pipeline.op = "process"
                 => /\ pipeline.res # "panic"
                    /\ pipeline.sink # None => pipeline.res = unwrap(pipeline.sink)

\* ---------------------------------------------------------------------
\* HamShark (src/lib.rs): a worker thread running main_loop and the mpsc
\* channel its commands go through. Worker w is the w-th thread spawned and
\* owns the receiver of the w-th channel.

\* Worker threads spawned in a run.
MaxWorkers == 2

\* Commands waiting in one channel.
MaxQueue == 1

\* What update_audio_input can be given.
AudioInputValues == {"default", "usb"}

\* thread::spawn(move || main_loop(rx)) over a new channel.
NewWorker == [alive |-> TRUE, running |-> TRUE, queue |-> <<>>, sender |-> TRUE]

\* HamShark::new
HamShark_new ==
    [join_handle |-> None, cmd_chan |-> None, audio_input |-> None,
     workers |-> <<>>]

\* HamShark::issue_command: send fails once the receiver is gone, which is
\* when the worker that owns it has returned from main_loop.
issue_command(self, cmd) ==
    IF self.cmd_chan # None
    THEN LET w == unwrap(self.cmd_chan)
         IN  IF self.workers[w].alive
             THEN [self |-> [self EXCEPT !.workers[w].queue = Append(@, cmd)],
                   res |-> "Ok"]
             ELSE [self |-> self, res |-> "ChannelDisconnected"]
    ELSE [self |-> self, res |-> "ChannelGone"]

\* HamShark::is_started
HamShark_is_started(self) == self.join_handle # None /\ self.cmd_chan # None

\* The sender held in cmd_chan is dropped.
drop_sender(self) ==
    IF self.cmd_chan # None
    THEN [self EXCEPT !.workers[unwrap(self.cmd_chan)].sender = FALSE]
    ELSE self

\* HamShark::start: the sender and the join handle that were there are
\* replaced and dropped; the thread of a dropped handle runs on.
HamShark_start(self) ==
    LET w == Len(self.workers) + 1
        dropped == drop_sender(self)
    IN  [dropped EXCEPT !.workers = Append(@, NewWorker),
                        !.cmd_chan = Some(w),
                        !.join_handle = Some(w)]

\* HamShark::pause
HamShark_pause(self) ==
    LET r == issue_command(self, "Pause")
    IN  [self |-> r.self, res |-> IF r.res = "Ok" THEN "Ok" ELSE "NotStarted"]

\* HamShark::resume
HamShark_resume(self) ==
    LET r == issue_command(self, "Resume")
    IN  [self |-> r.self, res |-> IF r.res = "Ok" THEN "Ok" ELSE "NotStarted"]

RECURSIVE run_to_stop(_)
\* main_loop of a worker from its state until it breaks on Stop: the
\* commands before Stop are taken in order, what follows Stop is never read.
run_to_stop(worker) ==
    IF worker.queue = <<>> THEN worker
    ELSE LET cmd == Head(worker.queue)
             rest == [worker EXCEPT !.queue = Tail(@)]
         IN  CASE cmd = "Stop" -> [rest EXCEPT !.alive = FALSE, !.queue = <<>>]
               [] cmd = "Pause" -> run_to_stop([rest EXCEPT !.running = FALSE])
               [] cmd = "Resume" -> run_to_stop([rest EXCEPT !.running = TRUE])

\* HamShark::stop: Stop is sent and the thread of the join handle joined;
\* cmd_chan keeps its sender.
HamShark_stop(self) ==
    LET r == issue_command(self, "Stop")
    IN  IF r.res = "Ok"
        THEN IF r.self.join_handle = None
             THEN [self |-> r.self, res |-> "panic"]
             ELSE LET w == unwrap(r.self.join_handle)
                  IN  [self |-> [r.self EXCEPT !.join_handle = None,
                                               !.workers[w] = run_to_stop(@)],
                       res |-> "Ok"]
        ELSE IF r.res = "ChannelDisconnected"
        THEN [self |-> r.self, res |-> "panic"]
        ELSE [self |-> r.self, res |-> "NotStarted"]

\* HamShark::update_audio_input
HamShark_update_audio_input(self, audio_input) ==
    LET was_started == HamShark_is_started(self)
        stopped == IF was_started THEN HamShark_stop(self)
                   ELSE [self |-> self, res |-> "Ok"]
        updated == [stopped.self EXCEPT !.audio_input = Some(audio_input)]
    IN  IF stopped.res # "Ok" THEN [self |-> stopped.self, res |-> "panic"]
        ELSE [self |-> IF was_started THEN HamShark_start(updated) ELSE updated,
              res |-> "Ok"]

\* One turn of main_loop that finds a command in the channel.
main_loop(worker) ==
    LET cmd == Head(worker.queue)
        rest == [worker EXCEPT !.queue = Tail(@)]
    IN  CASE cmd = "Stop" -> [rest EXCEPT !.alive = FALSE, !.queue = <<>>]
          [] cmd = "Pause" -> [rest EXCEPT !.running = FALSE]
          [] cmd = "Resume" -> [rest EXCEPT !.running = TRUE]

\* The HamShark of the state.
HamSharkSelf ==
    [join_handle |-> hamshark.join_handle, cmd_chan |-> hamshark.cmd_chan,
     audio_input |-> hamshark.audio_input, workers |-> hamshark.workers]

\* The HamShark after a call, with the call and its result.
HamSharkState(self, name, res) ==
    [join_handle |-> self.join_handle, cmd_chan |-> self.cmd_chan,
     audio_input |-> self.audio_input, workers |-> self.workers,
     op |-> name, res |-> res]

HamSharkInit ==
    /\ NoSession
    /\ wavclip = NotConstructed
    /\ source = NotConstructed
    /\ timeline = NotConstructed
    /\ shared = NotConstructed
    /\ pipeline = NotConstructed
    /\ hamshark = HamSharkState(HamShark_new, "new", "Ok")

\* A call returns r; calls stop after a panic, and the channel of the
\* current worker holds at most MaxQueue commands.
HamSharkApply(r, name) ==
    /\ hamshark.res # "panic"
    /\ \A w \in 1 .. Len(r.self.workers) : Len(r.self.workers[w].queue) <= MaxQueue
    /\ hamshark' = HamSharkState(r.self, name, r.res)
    /\ UNCHANGED <<sessionVars, wavclip, source, timeline, shared, pipeline>>

CallHamSharkStart ==
    /\ Len(hamshark.workers) < MaxWorkers
    /\ HamSharkApply([self |-> HamShark_start(HamSharkSelf), res |-> "Ok"], "start")

CallHamSharkPause == HamSharkApply(HamShark_pause(HamSharkSelf), "pause")

CallHamSharkResume == HamSharkApply(HamShark_resume(HamSharkSelf), "resume")

CallHamSharkStop == HamSharkApply(HamShark_stop(HamSharkSelf), "stop")

CallUpdateAudioInput ==
    \E audio_input \in AudioInputValues :
        /\ HamShark_is_started(HamSharkSelf) => Len(hamshark.workers) < MaxWorkers
        /\ HamSharkApply(HamShark_update_audio_input(HamSharkSelf, audio_input),
                         "update_audio_input")

\* A worker takes the next command of its channel.
WorkerStep ==
    \E w \in 1 .. Len(hamshark.workers) :
        /\ hamshark.workers[w].alive
        /\ hamshark.workers[w].queue # <<>>
        /\ HamSharkApply(
              [self |-> [HamSharkSelf EXCEPT !.workers[w] = main_loop(@)],
               res |-> hamshark.res], "main_loop")

HamSharkNext ==
    \/ CallHamSharkStart
    \/ CallHamSharkPause
    \/ CallHamSharkResume
    \/ CallHamSharkStop
    \/ CallUpdateAudioInput
    \/ WorkerStep

HamSharkSpec == HamSharkInit /\ [][HamSharkNext]_vars

\* C39: stop, pause and resume on a HamShark that is not started return
\* NotStarted and do not panic, and after a stop that returned Ok
\* HamShark_is_started() is false.
C39_NotStartedIsAnError ==
    [][/\ (hamshark'.op \in {"stop", "pause", "resume"} /\ ~HamShark_is_started(HamSharkSelf))
            => hamshark'.res = "NotStarted"
       /\ (hamshark'.op = "stop" /\ hamshark'.res = "Ok")
            => ~HamShark_is_started(HamSharkSelf')]_vars

\* The workers still inside main_loop.
AliveWorkers == {w \in 1 .. Len(hamshark.workers) : hamshark.workers[w].alive}

\* C40: after any sequence of start, stop and update_audio_input calls at
\* most one worker thread is alive.
C40_AtMostOneWorker == Cardinality(AliveWorkers) <= 1

====
